---------------------------- MODULE Spec2Model ----------------------------
(***************************************************************************)
(* Model of dm_control/manipulation/push.py: the Push task, its reward     *)
(* and episode reset, and the two registered factories.                    *)
(*                                                                         *)
(* Lengths are integers in millimetres (0.05 m = 50).  Rewards are         *)
(* fixed-point numbers with RewardOne units per 1.0, rounded down.  The    *)
(* close factor of the hand is an integer in units of 1/GraspRes.          *)
(***************************************************************************)
EXTENDS Integers, Sequences, FiniteSets, TLC

VARIABLES registry, task, args, scene, physics, last

vars == <<registry, task, args, scene, physics, last>>

(***************************************************************************)
(* Bounds of the model.                                                    *)
(***************************************************************************)
RewardOne == 10000
GraspRes == 2
SampleDiv == 1

(***************************************************************************)
(* Module-level constants of push.py.                                      *)
(***************************************************************************)
PROP_Z_OFFSET == 1
HAND_TARGET_RADIUS == 50
TARGET_RADIUS == 25
TARGET_PROP_XPOS == 100
MarginFactor == 4
ValueAtMarginNum == 1
ValueAtMarginDen == 5

BoundingBox(lower, upper) == [lower |-> lower, upper |-> upper]

\* The workspace with the prop spawned up to the right edge of the table.
DUPLO_WORKSPACE_right ==
  [target_bbox |-> BoundingBox(<<-100, -100, PROP_Z_OFFSET>>,
                               <<100, 100, PROP_Z_OFFSET>>),
   tcp_bbox    |-> BoundingBox(<<-100, -100, 200>>, <<100, 100, 400>>),
   arm_offset  |-> "ARM_OFFSET"]

DUPLO_WORKSPACE ==
  [target_bbox |-> BoundingBox(<<-100, -100, PROP_Z_OFFSET>>,
                               <<0, 100, PROP_Z_OFFSET>>),
   tcp_bbox    |-> BoundingBox(<<-100, -100, 200>>, <<100, 100, 400>>),
   arm_offset  |-> "ARM_OFFSET"]

(***************************************************************************)
(* Vectors and the Euclidean norm.  Norm rounds up to the next unit, so    *)
(* that Norm(v) <= r holds exactly when |v| <= r for an integer r.         *)
(***************************************************************************)
Sub(a, b) == <<a[1] - b[1], a[2] - b[2], a[3] - b[3]>>

Dot(a, b) == a[1] * b[1] + a[2] * b[2] + a[3] * b[3]

Abs(x) == IF x < 0 THEN -x ELSE x

RECURSIVE CeilSqrtIn(_, _, _)
CeilSqrtIn(n, lo, hi) ==
  IF lo >= hi THEN lo
  ELSE LET mid == (lo + hi) \div 2
       IN  IF mid * mid >= n THEN CeilSqrtIn(n, lo, mid)
           ELSE CeilSqrtIn(n, mid + 1, hi)

Norm(v) == CeilSqrtIn(Dot(v, v), 0, 2000)

(***************************************************************************)
(* rewards.tolerance with sigmoid='long_tail':                             *)
(*   1 inside [lower, upper]; outside, with d the distance to the nearer   *)
(*   bound, 1 / ((d/margin * scale)^2 + 1), scale^2 = 1/value_at_margin-1. *)
(***************************************************************************)
long_tail(d, margin, vnum, vden) ==
  (RewardOne * margin * margin * vnum)
     \div ((vden - vnum) * d * d + margin * margin * vnum)

tolerance(x, lower, upper, margin, vnum, vden) ==
  LET in_bounds == lower <= x /\ x <= upper
      d == IF x < lower THEN lower - x ELSE x - upper
  IN  IF in_bounds THEN RewardOne
      ELSE IF margin = 0 THEN 0
      ELSE long_tail(d, margin, vnum, vden)

(***************************************************************************)
(* Push.get_reward.                                                        *)
(***************************************************************************)
distance(phys) == Norm(Sub(phys.hand_pos, phys.target_pos))

prop_x_distance(phys) == Abs(phys.target_pos[1] - TARGET_PROP_XPOS)

\* hand_reward with the margin at twice the radius.
hand_reward_margin2(phys) ==
  tolerance(distance(phys), 0, HAND_TARGET_RADIUS, HAND_TARGET_RADIUS * 2,
            ValueAtMarginNum, ValueAtMarginDen)

hand_reward(phys) ==
  tolerance(distance(phys), 0, HAND_TARGET_RADIUS,
            HAND_TARGET_RADIUS * MarginFactor,
            ValueAtMarginNum, ValueAtMarginDen)

prop_reward(phys) ==
  tolerance(prop_x_distance(phys), 0, TARGET_RADIUS,
            TARGET_RADIUS * MarginFactor,
            ValueAtMarginNum, ValueAtMarginDen)

\* get_reward with the prop term weighted twice.
get_reward_weighted(self, phys) == hand_reward(phys) + 2 * prop_reward(phys)

\* get_reward with a bonus for a closed hand.
get_reward_grasp_bonus(self, phys) ==
  hand_reward(phys) + prop_reward(phys) + phys.grasp

get_reward(self, phys) == hand_reward(phys) + prop_reward(phys)

(***************************************************************************)
(* Push.__init__ and the accessors.                                        *)
(***************************************************************************)
None == "None"

NoTask == [built |-> FALSE]

Uniform(bbox) == [low |-> bbox.lower, high |-> bbox.upper]

make_target_site(parent_entity, visible) ==
  IF parent_entity = None THEN "AttributeError" ELSE "target_site"

\* The constructor's result: the exception it raises (or "ok"), the task it
\* built, the arguments it was given, and the changes it made to the scene
\* graph, in order.
Push(arena, arm, hand, prop, obs_settings, workspace, control_timestep) ==
  LET upto93 == <<"arm.attach(hand)", "arena.attach_offset(arm)",
                  "camera:front_close">>
      self == [built |-> TRUE,
               arena |-> arena,
               arm |-> arm,
               hand |-> hand,
               control_timestep |-> control_timestep,
               tcp_initializer |->
                 [hand |-> hand, arm |-> arm,
                  position |-> Uniform(workspace.tcp_bbox),
                  quaternion |-> "DOWN_QUATERNION"],
               task_observables |->
                 [front_close |-> <<obs_settings, "camera">>,
                  target_position |-> <<obs_settings, "prop_pose">>],
               prop |-> prop,
               target |-> "prop_frame",
               prop_placer |->
                 [props |-> <<prop>>,
                  position |-> Uniform(workspace.target_bbox),
                  quaternion |-> "uniform_z_rotation",
                  settle_physics |-> TRUE]]
      given == [arena |-> arena, arm |-> arm, hand |-> hand, prop |-> prop,
                obs_settings |-> obs_settings, workspace |-> workspace,
                control_timestep |-> control_timestep]
  IN  IF make_target_site(prop, FALSE) = "AttributeError"
      THEN [result |-> "AttributeError", self |-> NoTask, scene |-> upto93,
            args |-> given]
      ELSE [result |-> "ok", self |-> self, args |-> given,
            scene |-> upto93 \o <<"target_site", "arena.add_free_entity(prop)",
                                  "tcp_spawn_area", "target_spawn_area">>]

root_entity(self) == self.arena

arm(self) == self.arm

hand(self) == self.hand

task_observables(self) == self.task_observables

(***************************************************************************)
(* The factories and the registry.                                         *)
(***************************************************************************)
\* The factory of the site variant: no prop.
push_site(obs_settings) ==
  Push("Standard", "make_arm", "make_hand", None, obs_settings,
       DUPLO_WORKSPACE, "CONTROL_TIMESTEP")

push(obs_settings) ==
  Push("Standard", "make_arm", "make_hand", "Duplo", obs_settings,
       DUPLO_WORKSPACE, "CONTROL_TIMESTEP")

push_duplo_features == push("PERFECT_FEATURES")

push_duplo_vision == push("VISION")

Registered ==
  {[name |-> "push_duplo_features", tags |-> {"FEATURES", "EASY"}],
   [name |-> "push_duplo_vision", tags |-> {"VISION", "EASY"}]}

CallByName(name) ==
  IF name = "push_duplo_features" THEN push_duplo_features
  ELSE push_duplo_vision

(***************************************************************************)
(* Push.initialize_episode.                                                *)
(*                                                                         *)
(* rs holds what the random state and the collaborators do in this call:   *)
(*   u        the value of random_state.uniform()                          *)
(*   tcp      the pose the initializer draws from its position             *)
(*   pos      the pose the placer draws from its position                  *)
(*   settle   how far the prop drops while the physics settles             *)
(*   raises   the collaborator that raises, or "none"                      *)
(*   partial  whether a collaborator that raises has written its pose      *)
(***************************************************************************)
\* random_state.uniform(-1, 1) in place of random_state.uniform().
random_state_uniform_signed == (0 - GraspRes) .. (GraspRes - 1)

random_state_uniform == 0 .. (GraspRes - 1)

set_grasp(phys, close_factors) == [phys EXCEPT !.grasp = close_factors]

tcp_initializer(phys, pose) == [phys EXCEPT !.hand_pos = pose]

prop_placer(phys, pose, settle) ==
  [phys EXCEPT !.target_pos = <<pose[1], pose[2], pose[3] - settle>>]

NoPose == <<>>

\* The entry a collaborator leaves in the call log of the episode.
Call(fn, rs) == [fn |-> fn, raised |-> rs.raises = fn]

\* initialize_episode with the placer run before the initializer.
initialize_episode_reordered(self, phys, rs) ==
  LET out(p, calls, result, placed) ==
        [self |-> self, physics |-> p, calls |-> calls, result |-> result,
         close_factors |-> rs.u, placed |-> placed]
      c1 == <<Call("set_grasp", rs)>>
      c2 == c1 \o <<Call("prop_placer", rs)>>
      c3 == c2 \o <<Call("tcp_initializer", rs)>>
      p1 == set_grasp(phys, rs.u)
      p2 == prop_placer(p1, rs.pos, rs.settle)
      p3 == tcp_initializer(p2, rs.tcp)
  IN  IF rs.raises = "set_grasp" THEN out(phys, c1, "raised", NoPose)
      ELSE IF rs.raises = "prop_placer" THEN out(p1, c2, "raised", rs.pos)
      ELSE IF rs.raises = "tcp_initializer" THEN out(p2, c3, "raised", rs.pos)
      ELSE out(p3, c3, "ok", rs.pos)

\* initialize_episode with every collaborator wrapped in a try/except that
\* goes on to the next step.
initialize_episode_swallowing(self, phys, rs) ==
  LET c3 == <<Call("set_grasp", rs), Call("tcp_initializer", rs),
              Call("prop_placer", rs)>>
      p1 == IF rs.raises = "set_grasp" THEN phys ELSE set_grasp(phys, rs.u)
      p2 == IF rs.raises = "tcp_initializer" THEN p1
            ELSE tcp_initializer(p1, rs.tcp)
      p3 == IF rs.raises = "prop_placer" THEN p2
            ELSE prop_placer(p2, rs.pos, rs.settle)
  IN  [self |-> self, physics |-> p3, calls |-> c3, result |-> "ok",
       close_factors |-> rs.u, placed |-> rs.pos]

\* initialize_episode that also rebinds the task's placer to the box of the
\* initializer.
initialize_episode_rebinding(self, phys, rs) ==
  LET c3 == <<Call("set_grasp", rs), Call("tcp_initializer", rs),
              Call("prop_placer", rs)>>
      p3 == prop_placer(tcp_initializer(set_grasp(phys, rs.u), rs.tcp),
                        rs.pos, rs.settle)
  IN  [self |-> [self EXCEPT !.prop_placer.position =
                                self.tcp_initializer.position],
       physics |-> IF rs.raises = "none" THEN p3 ELSE phys,
       calls |-> IF rs.raises = "none" THEN c3 ELSE SubSeq(c3, 1, 1),
       result |-> IF rs.raises = "none" THEN "ok" ELSE "raised",
       close_factors |-> rs.u, placed |-> rs.pos]

initialize_episode(self, phys, rs) ==
  LET out(p, calls, result, placed) ==
        [self |-> self, physics |-> p, calls |-> calls, result |-> result,
         close_factors |-> rs.u, placed |-> placed]
      c1 == <<Call("set_grasp", rs)>>
      c2 == c1 \o <<Call("tcp_initializer", rs)>>
      c3 == c2 \o <<Call("prop_placer", rs)>>
      p1 == set_grasp(phys, rs.u)
      p2 == tcp_initializer(p1, rs.tcp)
      p3 == prop_placer(p2, rs.pos, rs.settle)
  IN  IF rs.raises = "set_grasp"
      THEN out(IF rs.partial THEN p1 ELSE phys, c1, "raised", NoPose)
      ELSE IF rs.raises = "tcp_initializer"
      THEN out(IF rs.partial THEN p2 ELSE p1, c2, "raised", NoPose)
      ELSE IF self.prop # None
      THEN IF rs.raises = "prop_placer"
           THEN out(IF rs.partial THEN p3 ELSE p2, c3, "raised", rs.pos)
           ELSE out(p3, c3, "ok", rs.pos)
      ELSE out(p2, c2, "AttributeError", NoPose)

(***************************************************************************)
(* Inputs.  A distribution over a box is sampled at its two ends and at    *)
(* SampleDiv - 1 points between them.                                      *)
(***************************************************************************)
Samples(dist) ==
  {[i \in 1..3 |-> dist.low[i] + (k * (dist.high[i] - dist.low[i])) \div SampleDiv]
     : k \in 0..SampleDiv}

HandProbes ==
  {<<100, 0, 50>>, <<100, 0, 51>>, <<100, 0, 250>>, <<130, 40, 0>>,
   <<-25, 0, 250>>}

PropProbes == {<<100, 0, 0>>, <<125, 0, 0>>, <<126, 0, 0>>, <<-25, 0, 0>>}

Raisers == {"none", "set_grasp", "tcp_initializer", "prop_placer"}

RandomDraws(self) ==
  [u : random_state_uniform,
   tcp : Samples(self.tcp_initializer.position),
   pos : Samples(self.prop_placer.position),
   settle : 0..PROP_Z_OFFSET,
   raises : Raisers,
   partial : BOOLEAN]

NoArgs == [given |-> FALSE]

(***************************************************************************)
(* The state machine.                                                      *)
(***************************************************************************)
Init ==
  /\ registry = Registered
  /\ task = NoTask
  /\ args = NoArgs
  /\ scene = <<>>
  /\ physics \in [hand_pos : HandProbes, target_pos : PropProbes, grasp : {0}]
  /\ last = [op |-> "import", result |-> "ok"]

\* A direct call of the constructor, with or without a prop.
Construct(prop, obs_settings) ==
  /\ last.op = "import"
  /\ LET r == Push("Standard", "make_arm", "make_hand", prop, obs_settings,
                   DUPLO_WORKSPACE, "CONTROL_TIMESTEP")
     IN  /\ task' = r.self
         /\ scene' = r.scene
         /\ last' = [op |-> "Push", result |-> r.result]
         /\ args' = [given |-> TRUE, via |-> "Push", call |-> r.args]
  /\ UNCHANGED <<registry, physics>>

\* A call of a registered factory.
CallFactory(f) ==
  /\ last.op = "import"
  /\ LET r == CallByName(f.name)
     IN  /\ task' = r.self
         /\ scene' = r.scene
         /\ last' = [op |-> f.name, result |-> r.result]
         /\ args' = [given |-> TRUE, via |-> f.name, call |-> r.args]
  /\ UNCHANGED <<registry, physics>>

InitializeEpisode ==
  /\ task.built
  /\ \E rs \in RandomDraws(task) :
       LET r == initialize_episode(task, physics, rs)
       IN  /\ task' = r.self
           /\ physics' = r.physics
           /\ last' = [op |-> "initialize_episode", result |-> r.result,
                       calls |-> r.calls, close_factors |-> r.close_factors,
                       placed |-> r.placed]
  /\ UNCHANGED <<registry, args, scene>>

GetReward ==
  /\ task.built
  /\ last' = [op |-> "get_reward", result |-> "ok",
              hand_reward |-> hand_reward(physics),
              prop_reward |-> prop_reward(physics),
              value |-> get_reward(task, physics)]
  /\ UNCHANGED <<registry, task, args, scene, physics>>

\* The framework advances the physics between the task's hooks.
PhysicsStep ==
  /\ task.built
  /\ \E h \in HandProbes \cup Samples(task.tcp_initializer.position),
        t \in PropProbes :
       physics' = [physics EXCEPT !.hand_pos = h, !.target_pos = t]
  /\ physics' # physics
  /\ last' = [op |-> "step", result |-> "ok"]
  /\ UNCHANGED <<registry, task, args, scene>>

Next ==
  \/ \E prop \in {"Duplo", None}, obs \in {"PERFECT_FEATURES", "VISION"} :
       Construct(prop, obs)
  \/ \E f \in registry : CallFactory(f)
  \/ InitializeEpisode
  \/ GetReward
  \/ PhysicsStep

Spec == Init /\ [][Next]_vars

(***************************************************************************)
(* Properties.                                                             *)
(***************************************************************************)
ResetSteps == <<"set_grasp", "tcp_initializer", "prop_placer">>

Fns(calls) == [i \in 1..Len(calls) |-> calls[i].fn]

IsPrefix(a, b) == Len(a) <= Len(b) /\ SubSeq(b, 1, Len(a)) = a

SomeRaised(calls) == \E i \in 1..Len(calls) : calls[i].raised

\* C1: a call of initialize_episode on a task with a prop runs set_grasp, the
\* TCP initializer and the prop placer, each once and in this order: the log
\* of the call is always a prefix of these three, and it is all three when
\* no collaborator raised, after which the call returns normally.
C1_ResetSequence ==
  (last.op = "initialize_episode" /\ task.prop # None) =>
     /\ Len(last.calls) >= 1
     /\ IsPrefix(Fns(last.calls), ResetSteps)
     /\ (~SomeRaised(last.calls) =>
           Fns(last.calls) = ResetSteps /\ last.result = "ok")

C1_Witness ==
  /\ last.op = "initialize_episode"
  /\ task.prop # None
  /\ last.result = "ok"
  /\ Fns(last.calls) = ResetSteps
  /\ physics.target_pos[1] = last.placed[1]

\* C4: the close factor that initialize_episode passes to set_grasp lies in
\* [0, 1], that is, in 0..GraspRes in units of 1/GraspRes.
C4_GraspInUnitInterval ==
  (last.op = "initialize_episode") =>
     /\ last.calls[1].fn = "set_grasp"
     /\ 0 <= last.close_factors /\ last.close_factors <= GraspRes

C4_Witness ==
  /\ last.op = "initialize_episode"
  /\ last.close_factors = GraspRes - 1
  /\ physics.grasp = last.close_factors

\* What a step that ends a call of initialize_episode by an exception does.
C9_Step ==
  (last'.op = "initialize_episode" /\ SomeRaised(last'.calls)) =>
     LET n == Len(last'.calls)
     IN  /\ last'.result = "raised"
         /\ last'.calls[n].raised
         /\ \A i \in 1..(n - 1) : ~last'.calls[i].raised
         /\ \A i, j \in 1..n : i # j => last'.calls[i].fn # last'.calls[j].fn
         /\ task' = task
         /\ (n >= 2 => physics'.grasp = last'.close_factors)
         /\ (n < 3 => physics'.target_pos = physics.target_pos)
         /\ (n < 2 => physics'.hand_pos = physics.hand_pos)

\* C9: when a collaborator of initialize_episode raises, the call ends with
\* that exception: the raising call is the last of the log, no step is in the
\* log twice, the steps after it did not touch the physics, and the grasp set
\* before it still stands.
C9_FailurePropagates == [][C9_Step]_vars

C9_Witness ==
  /\ last.op = "initialize_episode"
  /\ last.result = "raised"
  /\ Len(last.calls) = 2
  /\ last.close_factors > 0
  /\ physics.grasp = last.close_factors

\* C2: a task can be built with prop = None, and initialize_episode on it
\* completes normally whenever no collaborator raises.
C2_BuildsWithoutProp ==
  (args.given /\ args.call.prop = None) =>
     /\ task.built
     /\ ((last.op = "initialize_episode" /\ ~SomeRaised(last.calls)) =>
           last.result = "ok")

\* C3 as stated: get_reward returns the sum of the two terms, and the sum
\* lies in [0, 1.2].
C3_RewardAtMost1_2 ==
  (last.op = "get_reward") =>
     /\ last.value = last.hand_reward + last.prop_reward
     /\ 0 <= last.value
     /\ last.value <= (12 * RewardOne) \div 10

\* C3 as amended: get_reward returns the sum of the two terms, and the sum
\* lies in [0, 2].
C3_RewardAtMost2 ==
  (last.op = "get_reward") =>
     /\ last.value = last.hand_reward + last.prop_reward
     /\ 0 <= last.value
     /\ last.value <= 2 * RewardOne

C3_Witness ==
  /\ last.op = "get_reward"
  /\ last.value = 2 * RewardOne

\* What a step that ends a call of get_reward does.
C5_Step ==
  (last'.op = "get_reward") =>
     /\ task' = task
     /\ physics' = physics
     /\ args' = args
     /\ scene' = scene
     /\ registry' = registry
     /\ \A g \in 0..GraspRes :
          get_reward(task, [physics EXCEPT !.grasp = g]) = last'.value

\* C5: a call of get_reward changes nothing of the task, the physics or the
\* scene, and the reward it returns is the one get_reward gives for the same
\* hand and prop positions whatever the grasp that episodes have set.
C5_RewardStateless == [][C5_Step]_vars

C5_Witness ==
  /\ last.op = "get_reward"
  /\ physics.grasp > 0
  /\ last.value > 0

\* The snapshots a term of the last reward is compared with.
OtherSnapshots ==
  [hand_pos : HandProbes \cup Samples(task.tcp_initializer.position),
   target_pos : PropProbes \cup Samples(task.prop_placer.position),
   grasp : {physics.grasp}]

\* C6: the hand term is 1 exactly when the hand is within 0.05 of the prop
\* and 0.2 at 0.05 + 0.2; the prop term is 1 exactly when the prop's x is
\* within 0.025 of 0.1 and 0.2 at 0.025 + 0.1; outside the bounds a term is
\* smaller where its distance is larger.
C6_TermShapes ==
  (last.op = "get_reward") =>
     LET d == distance(physics)
         x == prop_x_distance(physics)
     IN  /\ (last.hand_reward = RewardOne) <=> (d <= 50)
         /\ (d = 50 + 200) => (last.hand_reward = RewardOne \div 5)
         /\ (last.prop_reward = RewardOne) <=> (x <= 25)
         /\ (x = 25 + 100) => (last.prop_reward = RewardOne \div 5)
         /\ \A q \in OtherSnapshots :
              /\ (50 < d /\ d < distance(q)) =>
                    hand_reward(q) < last.hand_reward
              /\ (25 < x /\ x < prop_x_distance(q)) =>
                    prop_reward(q) < last.prop_reward

C6_Witness ==
  /\ last.op = "get_reward"
  /\ distance(physics) = 250
  /\ prop_x_distance(physics) = 125
  /\ last.value = 2 * (RewardOne \div 5)

\* What every step keeps of a built task.
C7_Step ==
  /\ task.built => /\ task' = task
                   /\ args' = args
                   /\ scene' = scene
                   /\ registry' = registry
  /\ task'.built =>
       /\ root_entity(task') = args'.call.arena
       /\ arm(task') = args'.call.arm
       /\ hand(task') = args'.call.hand
       /\ task'.prop = args'.call.prop
       /\ task'.tcp_initializer.position = Uniform(args'.call.workspace.tcp_bbox)
       /\ task'.prop_placer.position = Uniform(args'.call.workspace.target_bbox)
       /\ task_observables(task') =
            [front_close |-> <<args'.call.obs_settings, "camera">>,
             target_position |-> <<args'.call.obs_settings, "prop_pose">>]

\* C7: once the task is built, no operation changes it, the arguments it
\* was built from, the scene or the registry; its accessors return the
\* arena, arm and hand given to the constructor, and its initializer and
\* placer draw from the boxes of the workspace given to the constructor.
C7_FixedAtConstruction == [][C7_Step]_vars

C7_Witness ==
  /\ task.built
  /\ last.op = "initialize_episode"
  /\ last.result = "ok"
  /\ root_entity(task) = "Standard"
  /\ task.prop_placer.position = Uniform(DUPLO_WORKSPACE.target_bbox)

\* C8: the registry holds push_duplo_features under (FEATURES, EASY) and
\* push_duplo_vision under (VISION, EASY); a call of either returns a task
\* with a Duplo prop, the Duplo workspace and the control timestep, the two
\* differing in the observation settings alone; on such a task
\* initialize_episode never takes the branch without a prop.
C8_Factories ==
  /\ registry =
       {[name |-> "push_duplo_features", tags |-> {"FEATURES", "EASY"}],
        [name |-> "push_duplo_vision", tags |-> {"VISION", "EASY"}]}
  /\ (args.given /\ args.via # "Push") =>
       /\ task.built
       /\ args.call.obs_settings =
            (IF args.via = "push_duplo_features" THEN "PERFECT_FEATURES"
             ELSE "VISION")
       /\ [args.call EXCEPT !.obs_settings = "any"] =
            [arena |-> "Standard", arm |-> "make_arm", hand |-> "make_hand",
             prop |-> "Duplo", obs_settings |-> "any",
             workspace |-> DUPLO_WORKSPACE,
             control_timestep |-> "CONTROL_TIMESTEP"]
       /\ task.prop = "Duplo"
       /\ task.control_timestep = "CONTROL_TIMESTEP"
       /\ (last.op = "initialize_episode" =>
             /\ last.result # "AttributeError"
             /\ (~SomeRaised(last.calls) =>
                   last.calls[Len(last.calls)].fn = "prop_placer"))

C8_Witness ==
  /\ args.given
  /\ args.via = "push_duplo_vision"
  /\ last.op = "initialize_episode"
  /\ last.result = "ok"

\* C10: after a reset that returned normally, the prop was placed with x in
\* [-0.1, 0] and z = 0.001 and the hand with z in [0.2, 0.4], so the prop is
\* at least 0.1 from the target x and the hand more than 0.05 from the prop,
\* and both reward terms are below 1, at the placed pose and at the settled
\* one.
C10_NeverStartsSolved ==
  (last.op = "initialize_episode" /\ last.result = "ok") =>
     LET placed == [physics EXCEPT !.target_pos = last.placed]
     IN  /\ -100 <= last.placed[1] /\ last.placed[1] <= 0
         /\ last.placed[3] = 1
         /\ 200 <= physics.hand_pos[3] /\ physics.hand_pos[3] <= 400
         /\ \A s \in {placed, physics} :
              /\ prop_x_distance(s) >= 100
              /\ distance(s) > 50
              /\ hand_reward(s) < RewardOne
              /\ prop_reward(s) < RewardOne

C10_Witness ==
  /\ last.op = "initialize_episode"
  /\ last.result = "ok"
  /\ last.placed[1] = 0
  /\ prop_x_distance(physics) = 100
  /\ physics.hand_pos[3] = 200

=============================================================================
